---- MODULE Spec2Model ----
(***************************************************************************)
(* Model of Eternity (src/src/eternity.rs): the top tier of the tiered     *)
(* commitment tree, an AuthTree of epochs plus three value-keyed indices.  *)
(*                                                                         *)
(* The generic tier engine (Tier, Insert, Item, Hash, index, Proof) and    *)
(* the Epoch/Block types live in sibling files of the crate that are not   *)
(* part of src/; they are modelled from their contract in spec.md 4.1-4.3. *)
(*                                                                         *)
(* Representation.                                                         *)
(*   Insert<T>   [kind |-> "Keep", keep |-> t] or [kind |-> "Hash",        *)
(*               hash |-> d]                                               *)
(*   Tier<T>     the sequence of its children, each an Insert<T>; the      *)
(*               child at position p (0-based) is element p + 1            *)
(*   digest      [of |-> x]: an ideal (collision-free) hash of x, where x  *)
(*               is a value (leaf) or the sequence of child digests        *)
(*   u32 / u64   little-endian sequences of 2 / 4 limbs of 16 bits, so     *)
(*               that the 2^32 and 2^16 weights and the wrapping of a      *)
(*               32-bit shift are kept exactly                             *)
(*   HashedMap   a function whose DOMAIN is the key set                    *)
(***************************************************************************)
EXTENDS Integers, Sequences, FiniteSets, TLC

(* Bounds of the model. *)
Capacity == 2      \* slots per tier (65,536 in the program, scaled down)
MaxValue == 2      \* the values (Fq) are 1..MaxValue

Values == 1 .. MaxValue

(***************************************************************************)
(* Fixed-width arithmetic on 16-bit limbs.                                 *)
(***************************************************************************)
U16_MAX == 65535
Limb == U16_MAX + 1

U32Of(n) == << n % Limb, (n \div Limb) % Limb >>
U32_MAX == << U16_MAX, U16_MAX >>
\* x << 16 on a u32: the high limb is shifted out (no overflow check on the
\* bits of a shift in Rust, debug or release).
ShlU32_16(x) == << 0, x[1] >>
AsU64(x) == << x[1], x[2], 0, 0 >>
\* x << 32 on a u64
ShlU64_32(x) == << 0, 0, x[1], x[2] >>
\* x << 16 on a u64
ShlU64_16(x) == << 0, x[1], x[2], x[3] >>
Carry(a, b, c) == (a + b + c) \div Limb
AddU64(a, b) ==
    LET c1 == Carry(a[1], b[1], 0)
        c2 == Carry(a[2], b[2], c1)
        c3 == Carry(a[3], b[3], c2)
    IN  << (a[1] + b[1]) % Limb,
           (a[2] + b[2] + c1) % Limb,
           (a[3] + b[3] + c2) % Limb,
           (a[4] + b[4] + c3) % Limb >>

(***************************************************************************)
(* Insert<T>, Option<T> and digests.                                       *)
(***************************************************************************)
Keep(t) == [kind |-> "Keep", keep |-> t]
HashIns(d) == [kind |-> "Hash", hash |-> d]
None == [kind |-> "None"]
Some(x) == [kind |-> "Some", some |-> x]

\* Hash::of(item): the digest of a leaf value.
HashOf(v) == [of |-> v]
\* The digest of a tier from the digests of its children.
NodeHash(ds) == [of |-> ds]

(***************************************************************************)
(* HashedMap operations used by the indices.                               *)
(***************************************************************************)
EmptyMap == << >>
\* HashMap::extend: the entries of n are inserted one by one, replacing the
\* value of a key that is already present.
Extend(m, n) ==
    [k \in (DOMAIN m) \cup (DOMAIN n) |-> IF k \in DOMAIN n THEN n[k] ELSE m[k]]
Remove(m, k) == [x \in (DOMAIN m) \ {k} |-> m[x]]
MapInsert(m, k, x) == [y \in (DOMAIN m) \cup {k} |-> IF y = k THEN x ELSE m[y]]

(***************************************************************************)
(* The tier primitive (spec.md 4.1), one set of operators per nesting      *)
(* level because the levels differ in the type of their children.          *)
(***************************************************************************)
\* insert: appended at position len, rejected (the argument handed back)
\* when all Capacity slots are taken.
TierInsert(tier, ins) ==
    IF Len(tier) < Capacity
    THEN [ok |-> TRUE, tier |-> Append(tier, ins), err |-> None]
    ELSE [ok |-> FALSE, tier |-> tier, err |-> ins]
TierLen(tier) == Len(tier)
TierIsEmpty(tier) == Len(tier) = 0
\* focus: the rightmost child, if any.
TierFocus(tier) == IF Len(tier) = 0 THEN None ELSE Some(tier[Len(tier)])

\* hash of an Insert<Item>, of a Tier<Item>, and so on upwards.
ItemHash(ins) == IF ins.kind = "Hash" THEN ins.hash ELSE HashOf(ins.keep)
BlockTierHash(tier) == NodeHash([p \in 1 .. Len(tier) |-> ItemHash(tier[p])])
BlockHash(ins) == IF ins.kind = "Hash" THEN ins.hash ELSE BlockTierHash(ins.keep)
EpochTierHash(tier) == NodeHash([p \in 1 .. Len(tier) |-> BlockHash(tier[p])])
EpochHash(ins) == IF ins.kind = "Hash" THEN ins.hash ELSE EpochTierHash(ins.keep)
EternityTierHash(tier) == NodeHash([p \in 1 .. Len(tier) |-> EpochHash(tier[p])])

\* Does the position address a child that is present and kept?
KeptAt(tier, pos) == pos + 1 \in 1 .. Len(tier) /\ tier[pos + 1].kind = "Keep"


\* witness at a (epoch, block, item) address of a Tier<Tier<Tier<Item>>>:
\* None iff a slot on the way is empty or pruned, otherwise the
\* authentication path (the sibling digests of each of the three tiers,
\* leaf tier first) and the digest of the leaf.
Siblings(ds, pos) == [p \in (1 .. Len(ds)) \ {pos + 1} |-> ds[p]]
EternityTierWitness(tier, index) ==
    IF /\ KeptAt(tier, index.epoch)
       /\ KeptAt(tier[index.epoch + 1].keep, index.block)
       /\ KeptAt(tier[index.epoch + 1].keep[index.block + 1].keep, index.item)
    THEN LET epoch == tier[index.epoch + 1].keep
             block == epoch[index.block + 1].keep
         IN  Some([auth_path |->
                     << Siblings(BlockTierHash(block).of, index.item),
                        Siblings(EpochTierHash(epoch).of, index.block),
                        Siblings(EternityTierHash(tier).of, index.epoch) >>,
                   leaf |-> ItemHash(block[index.item + 1])])
    ELSE None

\* forget at an address: true iff the slot held Keep and is now pruned to
\* the Hash of what it held; false, and nothing changes, otherwise.
BlockTierForget(tier, item) ==
    IF KeptAt(tier, item)
    THEN [forgotten |-> TRUE,
          tier |-> [tier EXCEPT ![item + 1] = HashIns(ItemHash(tier[item + 1]))]]
    ELSE [forgotten |-> FALSE, tier |-> tier]
EpochTierForget(tier, index) ==
    IF KeptAt(tier, index.block)
    THEN LET r == BlockTierForget(tier[index.block + 1].keep, index.item)
         IN  [forgotten |-> r.forgotten,
              tier |-> [tier EXCEPT ![index.block + 1] = Keep(r.tier)]]
    ELSE [forgotten |-> FALSE, tier |-> tier]
EternityTierForget(tier, index) ==
    IF KeptAt(tier, index.epoch)
    THEN LET r == EpochTierForget(tier[index.epoch + 1].keep, index)
         IN  [forgotten |-> r.forgotten,
              tier |-> [tier EXCEPT ![index.epoch + 1] = Keep(r.tier)]]
    ELSE [forgotten |-> FALSE, tier |-> tier]

\* index::within::Eternity -> the 48-bit global position, as a u64.
IndexInto(index) == << index.item, index.block, index.epoch, 0 >>

(***************************************************************************)
(* Block and Epoch (spec.md 4.2, 4.3): a tier plus the indices of the      *)
(* values kept in it.  They supply the epochs that are inserted.           *)
(***************************************************************************)
BlockNew == [inner |-> << >>, item_index |-> EmptyMap]
BlockInsert(block, ins) ==
    LET r == TierInsert(block.inner, ins)
    IN  IF ~r.ok THEN block
        ELSE [inner |-> r.tier,
              item_index |->
                IF ins.kind = "Keep"
                THEN MapInsert(block.item_index, ins.keep, TierLen(block.inner))
                ELSE block.item_index]

EpochNew == [inner |-> << >>, block_index |-> EmptyMap, item_index |-> EmptyMap]
\* ins is an Insert<Block>: the block's tier goes into the epoch's tier and
\* its item_index is merged into the epoch's indices.
EpochInsert(epoch, ins) ==
    LET slot == TierLen(epoch.inner)
        sub == IF ins.kind = "Keep" THEN Keep(ins.keep.inner) ELSE ins
        idx == IF ins.kind = "Keep" THEN ins.keep.item_index ELSE EmptyMap
        r == TierInsert(epoch.inner, sub)
    IN  IF ~r.ok THEN epoch
        ELSE [inner |-> r.tier,
              block_index |-> Extend(epoch.block_index, [v \in DOMAIN idx |-> slot]),
              item_index |-> Extend(epoch.item_index, idx)]
EpochForget(epoch, v) ==
    IF v \in DOMAIN epoch.item_index
    THEN LET index == [block |-> epoch.block_index[v], item |-> epoch.item_index[v]]
         IN  [inner |-> EpochTierForget(epoch.inner, index).tier,
              block_index |-> Remove(epoch.block_index, v),
              item_index |-> Remove(epoch.item_index, v)]
    ELSE epoch

RECURSIVE BlockOf(_)
BlockOf(items) ==
    IF Len(items) = 0 THEN BlockNew
    ELSE BlockInsert(BlockOf(SubSeq(items, 1, Len(items) - 1)), items[Len(items)])
RECURSIVE EpochOf(_)
EpochOf(blocks) ==
    IF Len(blocks) = 0 THEN EpochNew
    ELSE EpochInsert(EpochOf(SubSeq(blocks, 1, Len(blocks) - 1)), blocks[Len(blocks)])

(***************************************************************************)
(* The epochs handed to insert: built with the Block and Epoch operations  *)
(* from the values 1..MaxValue.                                            *)
(***************************************************************************)
ItemsOf(vs) == [p \in 1 .. Len(vs) |-> Keep(vs[p])]
KeptBlock(vs) == Keep(BlockOf(ItemsOf(vs)))
EpochShapes ==
    \* no block at all
    {EpochOf(<< >>)}
    \* one block of one kept item, or of two
    \cup {EpochOf(<< KeptBlock(<< v >>) >>) : v \in Values}
    \cup {EpochOf(<< KeptBlock(<< 1, MaxValue >>) >>)}
    \* a closed block followed by an open one: pruned, or kept (with the same
    \* value again, or another one)
    \cup {EpochOf(<< KeptBlock(<< 1 >>), HashIns(BlockTierHash(ItemsOf(<< 1 >>))) >>)}
    \cup {EpochOf(<< KeptBlock(<< v >>), KeptBlock(<< 1 >>) >>) : v \in {1, MaxValue}}
\* ... and one with a value forgotten inside the epoch
EpochStates ==
    EpochShapes \cup {EpochForget(EpochOf(<< KeptBlock(<< 1, MaxValue >>) >>), 1)}
EpochInputs ==
    {Keep(e) : e \in EpochStates}
    \cup {HashIns(EpochTierHash(EpochOf(<< KeptBlock(<< 1 >>) >>).inner))}

(***************************************************************************)
(* Eternity.                                                               *)
(***************************************************************************)
VARIABLES epoch_index, block_index, item_index, inner, ret
vars == << epoch_index, block_index, item_index, inner, ret >>

\* The Eternity value (self) assembled from its fields.
Eternity(ei, bi, ii, t) ==
    [epoch_index |-> ei, block_index |-> bi, item_index |-> ii, inner |-> t]
this == Eternity(epoch_index, block_index, item_index, inner)

Ok == [kind |-> "Ok"]
Err(x) == [kind |-> "Err", err |-> x]
Panic == [kind |-> "Panic"]
Bool(b) == [kind |-> "Bool", bool |-> b]
Returned(op, arg, res) == [op |-> op, arg |-> arg, res |-> res]

new == Eternity(EmptyMap, EmptyMap, EmptyMap, << >>)

\* Variants of insert with one slip each, against which the properties
\* below are tried.
\* - the indices are extended before the tier is asked
insert_eager_index(self, epoch) ==
    LET slot == TierLen(self.inner)
        hashed == epoch.kind = "Hash"
        sub == IF hashed THEN HashIns(epoch.hash) ELSE Keep(epoch.keep.inner)
        b_index == IF hashed THEN EmptyMap ELSE epoch.keep.block_index
        i_index == IF hashed THEN EmptyMap ELSE epoch.keep.item_index
        r == TierInsert(self.inner, sub)
    IN  [self |-> Eternity(
            Extend(self.epoch_index, [v \in DOMAIN i_index |-> slot]),
            Extend(self.block_index, b_index),
            Extend(self.item_index, i_index),
            r.tier),
         res |-> IF r.ok THEN Ok ELSE Err(epoch)]
\* - the result of the tier's insert is dropped
insert_ignoring_err(self, epoch) ==
    LET slot == TierLen(self.inner)
        hashed == epoch.kind = "Hash"
        sub == IF hashed THEN HashIns(epoch.hash) ELSE Keep(epoch.keep.inner)
        b_index == IF hashed THEN EmptyMap ELSE epoch.keep.block_index
        i_index == IF hashed THEN EmptyMap ELSE epoch.keep.item_index
        r == TierInsert(self.inner, sub)
    IN  [self |-> Eternity(
            Extend(self.epoch_index, [v \in DOMAIN i_index |-> slot]),
            Extend(self.block_index, b_index),
            Extend(self.item_index, i_index),
            r.tier),
         res |-> Ok]
\* - the epoch index is not recorded
insert_no_epoch_index(self, epoch) ==
    LET hashed == epoch.kind = "Hash"
        sub == IF hashed THEN HashIns(epoch.hash) ELSE Keep(epoch.keep.inner)
        b_index == IF hashed THEN EmptyMap ELSE epoch.keep.block_index
        i_index == IF hashed THEN EmptyMap ELSE epoch.keep.item_index
        r == TierInsert(self.inner, sub)
    IN  IF ~r.ok
        THEN [self |-> self, res |-> Err(epoch)]
        ELSE [self |-> Eternity(
                 self.epoch_index,
                 Extend(self.block_index, b_index),
                 Extend(self.item_index, i_index),
                 r.tier),
              res |-> Ok]
\* - the epoch slot is read after the tier's insert instead of before
insert_slot_after(self, epoch) ==
    LET hashed == epoch.kind = "Hash"
        sub == IF hashed THEN HashIns(epoch.hash) ELSE Keep(epoch.keep.inner)
        b_index == IF hashed THEN EmptyMap ELSE epoch.keep.block_index
        i_index == IF hashed THEN EmptyMap ELSE epoch.keep.item_index
        r == TierInsert(self.inner, sub)
        slot == TierLen(r.tier)
    IN  IF ~r.ok
        THEN [self |-> self, res |-> Err(epoch)]
        ELSE [self |-> Eternity(
                 Extend(self.epoch_index, [v \in DOMAIN i_index |-> slot]),
                 Extend(self.block_index, b_index),
                 Extend(self.item_index, i_index),
                 r.tier),
              res |-> Ok]
\* - the epoch index is extended from self.item_index, not from the
\*   item_index of the epoch that shadows it
insert_shadowed(self, epoch) ==
    LET slot == TierLen(self.inner)
        hashed == epoch.kind = "Hash"
        sub == IF hashed THEN HashIns(epoch.hash) ELSE Keep(epoch.keep.inner)
        b_index == IF hashed THEN EmptyMap ELSE epoch.keep.block_index
        i_index == IF hashed THEN EmptyMap ELSE epoch.keep.item_index
        r == TierInsert(self.inner, sub)
    IN  IF ~r.ok
        THEN [self |-> self, res |-> Err(epoch)]
        ELSE [self |-> Eternity(
                 Extend(self.epoch_index, [v \in DOMAIN self.item_index |-> slot]),
                 Extend(self.block_index, b_index),
                 Extend(self.item_index, i_index),
                 r.tier),
              res |-> Ok]

\* - an entry already present in block_index is kept (first wins)
insert_first_wins(self, epoch) ==
    LET slot == TierLen(self.inner)
        hashed == epoch.kind = "Hash"
        sub == IF hashed THEN HashIns(epoch.hash) ELSE Keep(epoch.keep.inner)
        b_index == IF hashed THEN EmptyMap ELSE epoch.keep.block_index
        i_index == IF hashed THEN EmptyMap ELSE epoch.keep.item_index
        r == TierInsert(self.inner, sub)
    IN  IF ~r.ok
        THEN [self |-> self, res |-> Err(epoch)]
        ELSE [self |-> Eternity(
                 Extend(self.epoch_index, [v \in DOMAIN i_index |-> slot]),
                 Extend(b_index, self.block_index),
                 Extend(self.item_index, i_index),
                 r.tier),
              res |-> Ok]

\* - the slot is taken from the size of epoch_index, not from the tier
insert_slot_from_index(self, epoch) ==
    LET slot == Cardinality(DOMAIN self.epoch_index)
        hashed == epoch.kind = "Hash"
        sub == IF hashed THEN HashIns(epoch.hash) ELSE Keep(epoch.keep.inner)
        b_index == IF hashed THEN EmptyMap ELSE epoch.keep.block_index
        i_index == IF hashed THEN EmptyMap ELSE epoch.keep.item_index
        r == TierInsert(self.inner, sub)
    IN  IF ~r.ok
        THEN [self |-> self, res |-> Err(epoch)]
        ELSE [self |-> Eternity(
                 Extend(self.epoch_index, [v \in DOMAIN i_index |-> slot]),
                 Extend(self.block_index, b_index),
                 Extend(self.item_index, i_index),
                 r.tier),
              res |-> Ok]

\* - the indices of the epoch replace those of the Eternity
insert_replacing(self, epoch) ==
    LET slot == TierLen(self.inner)
        hashed == epoch.kind = "Hash"
        sub == IF hashed THEN HashIns(epoch.hash) ELSE Keep(epoch.keep.inner)
        b_index == IF hashed THEN EmptyMap ELSE epoch.keep.block_index
        i_index == IF hashed THEN EmptyMap ELSE epoch.keep.item_index
        r == TierInsert(self.inner, sub)
    IN  IF ~r.ok
        THEN [self |-> self, res |-> Err(epoch)]
        ELSE [self |-> Eternity([v \in DOMAIN i_index |-> slot], b_index, i_index, r.tier),
              res |-> Ok]

\* - an entry already present in epoch_index is kept (first wins)
insert_epoch_first_wins(self, epoch) ==
    LET slot == TierLen(self.inner)
        hashed == epoch.kind = "Hash"
        sub == IF hashed THEN HashIns(epoch.hash) ELSE Keep(epoch.keep.inner)
        b_index == IF hashed THEN EmptyMap ELSE epoch.keep.block_index
        i_index == IF hashed THEN EmptyMap ELSE epoch.keep.item_index
        r == TierInsert(self.inner, sub)
    IN  IF ~r.ok
        THEN [self |-> self, res |-> Err(epoch)]
        ELSE [self |-> Eternity(
                 Extend([v \in DOMAIN i_index |-> slot], self.epoch_index),
                 Extend(self.block_index, b_index),
                 Extend(self.item_index, i_index),
                 r.tier),
              res |-> Ok]

insert(self, epoch) ==
    LET slot == TierLen(self.inner)
        hashed == epoch.kind = "Hash"
        sub == IF hashed THEN HashIns(epoch.hash) ELSE Keep(epoch.keep.inner)
        b_index == IF hashed THEN EmptyMap ELSE epoch.keep.block_index
        i_index == IF hashed THEN EmptyMap ELSE epoch.keep.item_index
        r == TierInsert(self.inner, sub)
    IN  IF ~r.ok
        THEN [self |-> self,
              res |-> Err(IF r.err.kind = "Keep"
                          THEN Keep([inner |-> r.err.keep,
                                     block_index |-> b_index,
                                     item_index |-> i_index])
                          ELSE r.err)]
        ELSE [self |-> Eternity(
                 Extend(self.epoch_index, [v \in DOMAIN i_index |-> slot]),
                 Extend(self.block_index, b_index),
                 Extend(self.item_index, i_index),
                 r.tier),
              res |-> Ok]

\* Variant of len: the arms for no open epoch and a pruned open epoch are
\* exchanged.
len_swapped_arms(self) ==
    LET f == TierFocus(self.inner)
        g == TierFocus(f.some.keep)
        block_part == IF g.kind = "None" THEN 0
                      ELSE IF g.some.kind = "Hash" THEN U16_MAX
                      ELSE TierLen(g.some.keep) % Limb
        epoch_part == IF f.kind = "None" THEN U32_MAX
                      ELSE IF f.some.kind = "Hash" THEN U32Of(0)
                      ELSE << block_part, 0 >>
    IN  AddU64(ShlU64_32(AsU64(U32Of(TierLen(self.inner)))),
               AsU64(ShlU32_16(epoch_part)))
len(self) ==
    LET f == TierFocus(self.inner)
        g == TierFocus(f.some.keep)
        block_part == IF g.kind = "None" THEN 0
                      ELSE IF g.some.kind = "Hash" THEN U16_MAX
                      ELSE TierLen(g.some.keep) % Limb
        epoch_part == IF f.kind = "None" THEN U32Of(0)
                      ELSE IF f.some.kind = "Hash" THEN U32_MAX
                      ELSE << block_part, 0 >>
    IN  AddU64(ShlU64_32(AsU64(U32Of(TierLen(self.inner)))),
               AsU64(ShlU32_16(epoch_part)))

is_empty(self) == TierIsEmpty(self.inner)

\* Variant of hash: the digest also covers the item index.
hash_with_index(self) ==
    NodeHash(<< EternityTierHash(self.inner),
                NodeHash([p \in 1 .. Cardinality(DOMAIN self.item_index) |-> HashOf(p)]) >>)
\* Variant of hash: the epochs held as a bare digest are left out.
hash_kept_only(self) ==
    LET RECURSIVE Kept(_)
        Kept(t) == IF Len(t) = 0 THEN << >>
                   ELSE IF t[Len(t)].kind = "Keep"
                        THEN Append(Kept(SubSeq(t, 1, Len(t) - 1)), EpochHash(t[Len(t)]))
                        ELSE Kept(SubSeq(t, 1, Len(t) - 1))
    IN  NodeHash(Kept(self.inner))
hash(self) == EternityTierHash(self.inner)

\* Variant of witness: block and item positions swapped in the address.
witness_swapped(self, item, debug) ==
    IF item \notin DOMAIN self.epoch_index THEN None
    ELSE IF item \notin DOMAIN self.block_index THEN Panic
    ELSE IF item \notin DOMAIN self.item_index THEN Panic
    ELSE LET index == [epoch |-> self.epoch_index[item],
                       block |-> self.item_index[item],
                       item |-> self.block_index[item]]
             w == EternityTierWitness(self.inner, index)
         IN  IF w.kind = "None" THEN None
             ELSE IF debug /\ w.some.leaf # HashOf(item) THEN Panic
             ELSE Some([index |-> IndexInto(index),
                        auth_path |-> w.some.auth_path,
                        leaf |-> item])
\* debug is whether the build has debug assertions on.
witness(self, item, debug) ==
    IF item \notin DOMAIN self.epoch_index THEN None
    ELSE IF item \notin DOMAIN self.block_index THEN Panic
    ELSE IF item \notin DOMAIN self.item_index THEN Panic
    ELSE LET index == [epoch |-> self.epoch_index[item],
                       block |-> self.block_index[item],
                       item |-> self.item_index[item]]
             w == EternityTierWitness(self.inner, index)
         IN  IF w.kind = "None" THEN None
             ELSE IF debug /\ w.some.leaf # HashOf(item) THEN Panic
             ELSE Some([index |-> IndexInto(index),
                        auth_path |-> w.some.auth_path,
                        leaf |-> item])

\* Variant of forget: the block index entry is left behind.
forget_keeps_block_index(self, item, debug) ==
    IF item \in DOMAIN self.item_index
    THEN IF item \notin DOMAIN self.block_index \/ item \notin DOMAIN self.epoch_index
         THEN [self |-> self, res |-> Panic]
         ELSE LET index == [item |-> self.item_index[item],
                            block |-> self.block_index[item],
                            epoch |-> self.epoch_index[item]]
                  r == EternityTierForget(self.inner, index)
              IN  IF debug /\ ~r.forgotten
                  THEN [self |-> [self EXCEPT !.inner = r.tier], res |-> Panic]
                  ELSE [self |-> Eternity(Remove(self.epoch_index, item),
                                          self.block_index,
                                          Remove(self.item_index, item),
                                          r.tier),
                        res |-> Bool(TRUE)]
    ELSE [self |-> self, res |-> Bool(FALSE)]
\* Variant of forget: the leaf is pruned but no index entry is removed.
forget_keeps_indices(self, item, debug) ==
    IF item \in DOMAIN self.item_index
    THEN IF item \notin DOMAIN self.block_index \/ item \notin DOMAIN self.epoch_index
         THEN [self |-> self, res |-> Panic]
         ELSE LET index == [item |-> self.item_index[item],
                            block |-> self.block_index[item],
                            epoch |-> self.epoch_index[item]]
                  r == EternityTierForget(self.inner, index)
              IN  IF debug /\ ~r.forgotten
                  THEN [self |-> [self EXCEPT !.inner = r.tier], res |-> Panic]
                  ELSE [self |-> [self EXCEPT !.inner = r.tier], res |-> Bool(TRUE)]
    ELSE [self |-> self, res |-> Bool(FALSE)]
\* Variant of forget: the epoch index entry is left behind.
forget_keeps_epoch_index(self, item, debug) ==
    IF item \in DOMAIN self.item_index
    THEN IF item \notin DOMAIN self.block_index \/ item \notin DOMAIN self.epoch_index
         THEN [self |-> self, res |-> Panic]
         ELSE LET index == [item |-> self.item_index[item],
                            block |-> self.block_index[item],
                            epoch |-> self.epoch_index[item]]
                  r == EternityTierForget(self.inner, index)
              IN  IF debug /\ ~r.forgotten
                  THEN [self |-> [self EXCEPT !.inner = r.tier], res |-> Panic]
                  ELSE [self |-> Eternity(self.epoch_index,
                                          Remove(self.block_index, item),
                                          Remove(self.item_index, item),
                                          r.tier),
                        res |-> Bool(TRUE)]
    ELSE [self |-> self, res |-> Bool(FALSE)]
\* Variant of forget: the index entries are removed but the tier is not
\* asked to forget the leaf.
forget_index_only(self, item, debug) ==
    IF item \in DOMAIN self.item_index
    THEN IF item \notin DOMAIN self.block_index \/ item \notin DOMAIN self.epoch_index
         THEN [self |-> self, res |-> Panic]
         ELSE [self |-> Eternity(Remove(self.epoch_index, item),
                                 Remove(self.block_index, item),
                                 Remove(self.item_index, item),
                                 self.inner),
               res |-> Bool(TRUE)]
    ELSE [self |-> self, res |-> Bool(FALSE)]
forget(self, item, debug) ==
    IF item \in DOMAIN self.item_index
    THEN IF item \notin DOMAIN self.block_index \/ item \notin DOMAIN self.epoch_index
         THEN [self |-> self, res |-> Panic]
         ELSE LET index == [item |-> self.item_index[item],
                            block |-> self.block_index[item],
                            epoch |-> self.epoch_index[item]]
                  r == EternityTierForget(self.inner, index)
              IN  IF debug /\ ~r.forgotten
                  THEN [self |-> [self EXCEPT !.inner = r.tier], res |-> Panic]
                  ELSE [self |-> Eternity(Remove(self.epoch_index, item),
                                          Remove(self.block_index, item),
                                          Remove(self.item_index, item),
                                          r.tier),
                        res |-> Bool(TRUE)]
    ELSE [self |-> self, res |-> Bool(FALSE)]

Becomes(self) ==
    /\ epoch_index' = self.epoch_index
    /\ block_index' = self.block_index
    /\ item_index' = self.item_index
    /\ inner' = self.inner

Init ==
    /\ epoch_index = new.epoch_index
    /\ block_index = new.block_index
    /\ item_index = new.item_index
    /\ inner = new.inner
    /\ ret = Returned("new", None, None)

DoInsert(epoch) ==
    LET r == insert(this, epoch)
    IN  Becomes(r.self) /\ ret' = Returned("insert", epoch, r.res)
DoLen == Becomes(this) /\ ret' = Returned("len", None, Some(len(this)))
DoIsEmpty == Becomes(this) /\ ret' = Returned("is_empty", None, Bool(is_empty(this)))
DoHash == Becomes(this) /\ ret' = Returned("hash", None, Some(hash(this)))
\* Variant of the witness call: the epoch index entry is taken out (remove
\* for get).
DoWitness_removing(item) ==
    \E debug \in BOOLEAN :
        /\ Becomes([this EXCEPT !.epoch_index = Remove(epoch_index, item)])
        /\ ret' = Returned("witness", Some(item), witness(this, item, debug))
DoWitness(item) ==
    \E debug \in BOOLEAN :
        Becomes(this) /\ ret' = Returned("witness", Some(item), witness(this, item, debug))
DoForget(item) ==
    \E debug \in BOOLEAN :
        LET r == forget(this, item, debug)
        IN  Becomes(r.self) /\ ret' = Returned("forget", Some(item), r.res)

Next ==
    \/ \E epoch \in EpochInputs : DoInsert(epoch)
    \/ DoLen
    \/ DoIsEmpty
    \/ DoHash
    \/ \E item \in Values : DoWitness(item)
    \/ \E item \in Values : DoForget(item)

Spec == Init /\ [][Next]_vars

(***************************************************************************)
(* Vocabulary of the properties.                                           *)
(***************************************************************************)
\* The last call was insert and it returned Ok / Err.
InsertOk == ret.op = "insert" /\ ret.res.kind = "Ok"
InsertErr == ret.op = "insert" /\ ret.res.kind = "Err"
\* The last call was a successful insert of a Keep epoch that indexes v.
InsertedKept(v) ==
    /\ InsertOk
    /\ ret.arg.kind = "Keep"
    /\ v \in DOMAIN ret.arg.keep.item_index
Forgot(v) == ret.op = "forget" /\ ret.arg = Some(v)
InAllIndices(v) ==
    v \in DOMAIN epoch_index /\ v \in DOMAIN block_index /\ v \in DOMAIN item_index
InSomeIndex(v) ==
    v \in DOMAIN epoch_index \/ v \in DOMAIN block_index \/ v \in DOMAIN item_index
Indices == << epoch_index, block_index, item_index >>
\* The composite address the indices give for an indexed value.
AddressOf(v) ==
    [epoch |-> epoch_index[v], block |-> block_index[v], item |-> item_index[v]]
\* What witness returns now, whatever the build.
WitnessIs(v, res) == \A debug \in BOOLEAN : witness(this, v, debug) = res

\* C1: whenever insert returns Err, the value in Err is the argument, and
\* the three indices, len() and hash() are what they were before the call.
InsertFailureIsAtomic ==
    [][InsertErr' =>
          /\ ret'.res.err = ret'.arg
          /\ Indices' = Indices
          /\ len(this') = len(this)
          /\ hash(this') = hash(this)]_vars
\* A full Eternity with indexed values has just rejected a Keep epoch that
\* indexes values too.
InsertFailureWitness ==
    /\ InsertErr
    /\ ret.arg.kind = "Keep"
    /\ DOMAIN ret.arg.keep.item_index # {}
    /\ DOMAIN item_index # {}

\* C2: at most Capacity epochs are ever held; insert succeeds when fewer
\* than Capacity are held and fails when Capacity are held; once full, the
\* Eternity stays full and every insert fails, whatever is forgotten.
CapacityRespected ==
    /\ [](TierLen(inner) <= Capacity)
    /\ [][ret'.op = "insert" =>
             (ret'.res.kind = "Ok" <=> TierLen(inner) < Capacity)]_vars
    /\ [][TierLen(inner) = Capacity =>
             /\ TierLen(inner') = Capacity
             /\ ret'.op = "insert" => ret'.res.kind = "Err"]_vars
\* A Hash epoch has been rejected by a full Eternity after a forget.
CapacityWitness ==
    /\ InsertErr
    /\ ret.arg.kind = "Hash"
    /\ TierLen(inner) = Capacity
    /\ \E p \in 1 .. Len(inner) : inner[p].kind = "Keep" /\
          \E q \in 1 .. Len(inner[p].keep) : inner[p].keep[q].kind = "Keep" /\
             \E r \in 1 .. Len(inner[p].keep[q].keep) :
                inner[p].keep[q].keep[r].kind = "Hash"

\* C3: after a successful insert of a Keep epoch that indexes v, witness(v)
\* is Some(proof) with proof.leaf = v and proof.index the (epoch slot, block
\* position, item position) at which v was inserted; forget(v) of a
\* witnessable v returns true and leaves witness(v) = None; and witness(v)
\* stops being None only by an insert of a Keep epoch that indexes v.
WitnessForgetRoundTrip ==
    [][\A v \in Values, debug \in BOOLEAN :
          /\ InsertedKept(v)' =>
                LET epoch == ret'.arg.keep
                    at == [epoch |-> TierLen(inner),
                           block |-> epoch.block_index[v],
                           item |-> epoch.item_index[v]]
                    w == witness(this', v, debug)
                IN  /\ w.kind = "Some"
                    /\ w.some.leaf = v
                    /\ w.some.index = IndexInto(at)
                    /\ epoch.inner[at.block + 1].keep[at.item + 1] = Keep(v)
                    /\ inner'[at.epoch + 1].keep = epoch.inner
          /\ (Forgot(v)' /\ witness(this, v, debug).kind = "Some") =>
                /\ ret'.res = Bool(TRUE)
                /\ witness(this', v, debug) = None
          /\ (/\ this' # this
              /\ witness(this, v, debug) = None
              /\ witness(this', v, debug) # None) =>
                InsertedKept(v)']_vars
\* v was inserted, witnessed at block 1 of epoch 1, forgotten, and the
\* witness asked again has answered None.
RoundTripWitness ==
    /\ ret.op = "witness"
    /\ ret.res = None
    /\ \E v \in Values :
          /\ ret.arg = Some(v)
          /\ KeptAt(inner, 1)
          /\ KeptAt(inner[2].keep, 1)
          /\ Len(inner[2].keep[2].keep) = 1
          /\ inner[2].keep[2].keep[1] = HashIns(HashOf(v))

\* C4: forget(v), of an indexed value or not, leaves hash() as it was.
ForgetPreservesHash == [][ret'.op = "forget" => hash(this') = hash(this)]_vars
\* A forget has pruned a leaf.
ForgetHashWitness == \E v \in Values : Forgot(v) /\ ret.res = Bool(TRUE)

\* C5 (INV1): every value in item_index is in block_index and epoch_index.
INV1 ==
    DOMAIN item_index \subseteq (DOMAIN block_index) \cap (DOMAIN epoch_index)
\* A value indexed by the second epoch, after another value was forgotten.
INV1Witness ==
    /\ TierLen(inner) >= 2
    /\ \E v \in DOMAIN item_index, w \in Values \ DOMAIN item_index :
          /\ epoch_index[v] = 1
          /\ Forgot(w)
          /\ ret.res = Bool(TRUE)

\* C6 (INV2): the address of every indexed value is that of a slot holding
\* the kept item of that value; so the tier's forget there returns true, its
\* witness returns the digest of the value, and no call ends in a panic.
INV2 ==
    /\ \A v \in Values : InSomeIndex(v) =>
          /\ InAllIndices(v)
          /\ KeptAt(inner, AddressOf(v).epoch)
          /\ KeptAt(inner[AddressOf(v).epoch + 1].keep, AddressOf(v).block)
          /\ inner[AddressOf(v).epoch + 1].keep[AddressOf(v).block + 1]
                .keep[AddressOf(v).item + 1] = Keep(v)
          /\ EternityTierForget(inner, AddressOf(v)).forgotten
          /\ EternityTierWitness(inner, AddressOf(v)) # None
          /\ EternityTierWitness(inner, AddressOf(v)).some.leaf = HashOf(v)
    /\ ret.res # Panic
\* A value indexed a second time, by a later epoch, while its first copy is
\* still kept in the tree.
INV2Witness ==
    \E v \in DOMAIN epoch_index :
        /\ epoch_index[v] = 1
        /\ KeptAt(inner, 0)
        /\ \E b \in 1 .. Len(inner[1].keep) :
              /\ inner[1].keep[b].kind = "Keep"
              /\ \E i \in 1 .. Len(inner[1].keep[b].keep) :
                    inner[1].keep[b].keep[i] = Keep(v)

\* C7: v enters the three indices exactly by a successful insert of a Keep
\* epoch whose item_index contains v, and leaves them exactly by forget(v):
\* no other call adds or removes an entry of v, and after forget(v) v is in
\* none of the three.
IndexLifecycle ==
    [][\A v \in Values :
          /\ InsertedKept(v)' => InAllIndices(v)'
          /\ (~InSomeIndex(v) /\ InSomeIndex(v)') => InsertedKept(v)'
          /\ (InSomeIndex(v) /\ ~InAllIndices(v)') => Forgot(v)'
          /\ Forgot(v)' => ~InSomeIndex(v)']_vars
\* v has been forgotten while another value stays indexed, and the
\* Eternity is full, so that inserts have failed on the way or will.
LifecycleWitness ==
    \E v \in Values :
        /\ Forgot(v)
        /\ ret.res = Bool(TRUE)
        /\ DOMAIN epoch_index = Values \ {v}
        /\ TierLen(inner) = Capacity

\* C8: with e epochs before the open, kept one, b blocks before its open,
\* kept block, and i items in that block, len() = e * 2^32 + b * 2^16 + i.
LenFormula ==
    LET f == TierFocus(inner)
        g == TierFocus(f.some.keep)
        e == TierLen(inner) - 1
        b == TierLen(f.some.keep) - 1
        i == TierLen(g.some.keep)
    IN  (f.kind = "Some" /\ f.some.kind = "Keep" /\ g.kind = "Some" /\ g.some.kind = "Keep")
        => len(this) = AddU64(ShlU64_32(AsU64(U32Of(e))),
                              AddU64(ShlU64_16(AsU64(U32Of(b))), AsU64(U32Of(i))))

\* C9: len() is the number of epochs times 2^32, plus 0 when there is no
\* open epoch or the open epoch has no open block, plus u32::MAX when the
\* open epoch is pruned, plus u16::MAX when the open block of the kept open
\* epoch is pruned.
LenSentinels ==
    LET f == TierFocus(inner)
        g == TierFocus(f.some.keep)
        epochs == ShlU64_32(AsU64(U32Of(TierLen(inner))))
    IN  /\ f.kind = "None" => len(this) = epochs
        /\ (f.kind = "Some" /\ f.some.kind = "Hash") =>
              len(this) = AddU64(epochs, AsU64(U32_MAX))
        /\ (f.kind = "Some" /\ f.some.kind = "Keep" /\ g.kind = "None") =>
              len(this) = epochs
        /\ (f.kind = "Some" /\ f.some.kind = "Keep" /\ g.kind = "Some"
               /\ g.some.kind = "Hash") =>
              len(this) = AddU64(epochs, AsU64(<< U16_MAX, 0 >>))

\* The values held as kept items of kept blocks of kept epochs of the tree.
KeptValues ==
    {v \in Values :
        \E e \in 1 .. Len(inner) : inner[e].kind = "Keep" /\
           \E b \in 1 .. Len(inner[e].keep) : inner[e].keep[b].kind = "Keep" /\
              \E i \in 1 .. Len(inner[e].keep[b].keep) :
                 inner[e].keep[b].keep[i] = Keep(v)}

\* C10: a successful insert of Insert::Hash(h) changes none of the three
\* indices, and witness(v) is None for every value that no kept epoch of the
\* tree holds (a value held only by epochs inserted as Hash).
HashInsertNotIndexed ==
    /\ [][(InsertOk' /\ ret'.arg.kind = "Hash") => Indices' = Indices]_vars
    /\ [](\A v \in Values \ KeptValues : WitnessIs(v, None))
\* The digest of an epoch that keeps value 1 has been inserted after a Keep
\* epoch indexing another value, and witness(1) has answered None.
HashInsertWitness ==
    /\ ret.op = "witness"
    /\ ret.arg = Some(1)
    /\ ret.res = None
    /\ DOMAIN epoch_index # {}
    /\ \E p \in 2 .. Len(inner) :
          inner[p] = HashIns(EpochTierHash(EpochOf(<< KeptBlock(<< 1 >>) >>).inner))

\* The upper 32 bits of a u64: in len(), the number of epochs.
High32(x) == << x[3], x[4] >>
\* The insert that has just succeeded, and the insert of the same epoch in
\* its other form (Keep(E) for Hash(root of E), Hash(root of E) for Keep(E))
\* from the state before it, agree on what Agree(a, b) compares.
OtherForms ==
    IF ret'.arg.kind = "Keep"
    THEN {HashIns(EpochTierHash(ret'.arg.keep.inner))}
    ELSE {Keep(e) : e \in {x \in EpochStates : EpochTierHash(x.inner) = ret'.arg.hash}}

\* C11 as stated: from the same non-full state, insert of Hash(h), h the
\* root hash of epoch E, succeeds and gives the same hash() and the same
\* len() as insert of Keep(E).
PrunedEpochEquivalence ==
    [][InsertOk' =>
          \A other \in OtherForms :
              LET r == insert(this, other)
              IN  /\ r.res = Ok
                  /\ hash(r.self) = hash(this')
                  /\ len(r.self) = len(this')]_vars
\* C11 as amended: both succeed and give the same hash() and the same
\* number of epochs (the upper 32 bits of len()).
PrunedEpochSameHash ==
    [][InsertOk' =>
          \A other \in OtherForms :
              LET r == insert(this, other)
              IN  /\ r.res = Ok
                  /\ hash(r.self) = hash(this')
                  /\ High32(len(r.self)) = High32(len(this'))]_vars
\* The root hash of an epoch keeping value 1 has been inserted into an
\* Eternity that already held an epoch.
PrunedEpochWitness ==
    /\ InsertOk
    /\ ret.arg = HashIns(EpochTierHash(EpochOf(<< KeptBlock(<< 1 >>) >>).inner))
    /\ TierLen(inner) >= 2

SuccessfulInsertIndexes ==
    [][(InsertOk' /\ ret'.arg.kind = "Keep") =>
          LET epoch == ret'.arg.keep
          IN  /\ \A v \in DOMAIN epoch.item_index :
                    /\ v \in DOMAIN epoch_index' /\ epoch_index'[v] = TierLen(inner)
                    /\ v \in DOMAIN item_index' /\ item_index'[v] = epoch.item_index[v]
              /\ \A v \in DOMAIN epoch.block_index :
                    v \in DOMAIN block_index' /\ block_index'[v] = epoch.block_index[v]]_vars
\* An epoch indexing two values has been inserted as the second epoch.
SuccessfulInsertWitness ==
    /\ InsertOk
    /\ ret.arg.kind = "Keep"
    /\ Cardinality(DOMAIN ret.arg.keep.item_index) >= 2
    /\ TierLen(inner) = 2
    /\ \A v \in DOMAIN ret.arg.keep.item_index : epoch_index[v] = 1

\* C14: witness(v) answers None only for a value absent from epoch_index:
\* for an indexed value the tier's witness never answers None, so neither
\* does witness, now or in the answer of the last call.
WitnessNoneOnlyIfAbsent ==
    /\ \A v \in Values, debug \in BOOLEAN :
          witness(this, v, debug) = None => v \notin DOMAIN epoch_index
    /\ \A v \in DOMAIN epoch_index :
          InAllIndices(v) /\ EternityTierWitness(inner, AddressOf(v)) # None
    /\ \A v \in Values :
          (ret.op = "witness" /\ ret.arg = Some(v) /\ ret.res = None)
             => v \notin DOMAIN epoch_index
\* witness(v) has answered None for a value that the indices have lost by a
\* forget although a copy of it is still kept in the tree.
WitnessNoneWitness ==
    \E v \in KeptValues :
        /\ ret.op = "witness"
        /\ ret.arg = Some(v)
        /\ ret.res = None
        /\ DOMAIN epoch_index # {}

\* The addresses of the leaves of a tree that are pruned to a digest.
PrunedLeaves(tier) ==
    {a \in [epoch : 0 .. Capacity - 1, block : 0 .. Capacity - 1, item : 0 .. Capacity - 1] :
        /\ KeptAt(tier, a.epoch)
        /\ KeptAt(tier[a.epoch + 1].keep, a.block)
        /\ a.item + 1 \in 1 .. Len(tier[a.epoch + 1].keep[a.block + 1].keep)
        /\ tier[a.epoch + 1].keep[a.block + 1].keep[a.item + 1].kind = "Hash"}

\* C15: forget, witness and a failed insert change neither the number of
\* epoch slots nor len(); a successful insert appends its epoch at the slot
\* numbered by the epochs held before (so the k-th lands at slot k - 1),
\* leaving every earlier slot to the epoch it holds; a pruned leaf stays
\* pruned and no value is ever indexed at the address of one.
PositionsNeverReused ==
    [][/\ (ret'.op \in {"forget", "witness"} \/ InsertErr') =>
             /\ TierLen(inner') = TierLen(inner)
             /\ len(this') = len(this)
       /\ InsertOk' =>
             /\ TierLen(inner') = TierLen(inner) + 1
             /\ EpochHash(inner'[Len(inner')]) =
                   (IF ret'.arg.kind = "Hash" THEN ret'.arg.hash
                    ELSE EpochTierHash(ret'.arg.keep.inner))
       /\ \A v \in Values : InsertedKept(v)' => epoch_index'[v] = TierLen(inner)
       /\ \A p \in 1 .. Len(inner) :
             p <= Len(inner') /\ EpochHash(inner'[p]) = EpochHash(inner[p])
       /\ this' # this =>
             /\ PrunedLeaves(inner) \subseteq PrunedLeaves(inner')
             /\ \A v \in DOMAIN epoch_index' :
                   InAllIndices(v)' /\ AddressOf(v)' \notin PrunedLeaves(inner)]_vars
\* A second epoch has been inserted, and its value indexed, after the only
\* leaf of the first epoch was forgotten.
PositionsWitness ==
    /\ InsertOk
    /\ TierLen(inner) = 2
    /\ \E v \in Values :
          /\ inner[1] = Keep(<< Keep(<< HashIns(HashOf(v)) >>) >>)
          /\ v \in DOMAIN epoch_index
          /\ epoch_index[v] = 1

\* C16: witness(v), for any v, and forget(v) for a v absent from
\* item_index, which returns false, leave the tree, the three indices,
\* len() and hash() unchanged.
NoOpOperations ==
    [][\A v \in Values :
          ((ret'.op = "witness" /\ ret'.arg = Some(v))
              \/ (Forgot(v)' /\ v \notin DOMAIN item_index)) =>
             /\ inner' = inner
             /\ Indices' = Indices
             /\ len(this') = len(this)
             /\ hash(this') = hash(this)
             /\ ret'.op = "forget" => ret'.res = Bool(FALSE)]_vars
\* forget(v) has answered false for a value that is not indexed although a
\* copy of it is kept in the tree, while another value is indexed.
NoOpWitness ==
    \E v \in KeptValues :
        /\ Forgot(v)
        /\ ret.res = Bool(FALSE)
        /\ DOMAIN item_index # {}

\* The entry of w in an index m is the same in the next state as now.
SameEntry(m, n, w) ==
    /\ w \in DOMAIN m <=> w \in DOMAIN n
    /\ w \in DOMAIN m => m[w] = n[w]
SameEntries(w) ==
    /\ SameEntry(epoch_index, epoch_index', w)
    /\ SameEntry(block_index, block_index', w)
    /\ SameEntry(item_index, item_index', w)

\* C17: a successful insert leaves the index entries of every value that is
\* not a key of the inserted epoch's item_index or block_index as they were;
\* forget(v) leaves the entries of every other value as they were, and every
\* other value witnessed before is witnessed after, with the same proof.
IndexFrame ==
    [][/\ InsertOk' =>
             \A w \in Values :
                 (ret'.arg.kind = "Keep" =>
                     /\ w \notin DOMAIN ret'.arg.keep.item_index
                     /\ w \notin DOMAIN ret'.arg.keep.block_index)
                 => SameEntries(w)
       /\ \A v \in Values : Forgot(v)' =>
             \A w \in Values \ {v}, debug \in BOOLEAN :
                 /\ SameEntries(w)
                 /\ witness(this, w, debug).kind = "Some" =>
                       witness(this', w, debug) = witness(this, w, debug)]_vars
\* v has been forgotten in the only epoch, and the other value of its block
\* is still indexed, next to the digest left of v.
IndexFrameWitness ==
    \E v \in Values, w \in DOMAIN item_index :
        /\ v # w
        /\ Forgot(v)
        /\ ret.res = Bool(TRUE)
        /\ inner = << Keep(<< Keep(<< HashIns(HashOf(v)), Keep(w) >>) >>) >>

\* C18: every inserted Keep epoch having block_index and item_index over
\* the same keys, the key sets of epoch_index, block_index and item_index
\* are equal in every state, so that no expect() of witness or forget fires:
\* no call has ended in a panic and none would now.
NoIndexPanic ==
    /\ \A e \in EpochStates : DOMAIN e.block_index = DOMAIN e.item_index
    /\ DOMAIN epoch_index = DOMAIN block_index
    /\ DOMAIN block_index = DOMAIN item_index
    /\ ret.res # Panic
    /\ \A v \in Values, debug \in BOOLEAN :
          witness(this, v, debug) # Panic /\ forget(this, v, debug).res # Panic
\* witness has passed its two expect() calls and answered Some in a full
\* Eternity in which one of two indexed values has been forgotten.
NoIndexPanicWitness ==
    /\ ret.op = "witness"
    /\ ret.res.kind = "Some"
    /\ TierLen(inner) = Capacity
    /\ Cardinality(DOMAIN epoch_index) = 1
    /\ PrunedLeaves(inner) # {}

(***************************************************************************)
(* The Eternity used without duplicates: a Keep epoch is inserted only if  *)
(* it indexes exactly the items it keeps, keeps no value twice, and holds  *)
(* no value that a leaf of the tree holds or held before being forgotten.  *)
(***************************************************************************)
\* The leaves of an epoch's tier (Tier<Tier<Item>>), as Insert<Item>s with
\* their place.
LeavesOf(tier) ==
    UNION {{[block |-> b, item |-> i, leaf |-> tier[b].keep[i]] :
               i \in 1 .. Len(tier[b].keep)} :
           b \in {x \in 1 .. Len(tier) : tier[x].kind = "Keep"}}
\* The values a tier of blocks keeps, and those it keeps or has pruned.
KeptIn(tier) == {v \in Values : \E l \in LeavesOf(tier) : l.leaf = Keep(v)}
HeldIn(tier) ==
    {v \in Values : \E l \in LeavesOf(tier) : ItemHash(l.leaf) = HashOf(v)}
EverHeld ==
    UNION {HeldIn(inner[e].keep) : e \in {x \in 1 .. Len(inner) : inner[x].kind = "Keep"}}
IndexesItsItems(epoch) ==
    /\ DOMAIN epoch.item_index = KeptIn(epoch.inner)
    /\ DOMAIN epoch.block_index = KeptIn(epoch.inner)
    /\ Cardinality({l \in LeavesOf(epoch.inner) : l.leaf.kind = "Keep"})
          = Cardinality(KeptIn(epoch.inner))
UniqueInputs ==
    {x \in EpochInputs :
        x.kind = "Keep" =>
            /\ IndexesItsItems(x.keep)
            /\ HeldIn(x.keep.inner) \cap EverHeld = {}}
NextUnique ==
    \/ \E epoch \in UniqueInputs : DoInsert(epoch)
    \/ DoLen
    \/ DoIsEmpty
    \/ DoHash
    \/ \E item \in Values : DoWitness(item)
    \/ \E item \in Values : DoForget(item)
SpecUnique == Init /\ [][NextUnique]_vars

\* C19: when no value is inserted twice and every inserted Keep epoch
\* indexes exactly its kept items, the values indexed (in each of the three
\* indices) are exactly the values held in kept leaves of the tree, and each
\* of them is witnessed.
IndexedEqualsKept ==
    /\ DOMAIN epoch_index = KeptValues
    /\ DOMAIN block_index = KeptValues
    /\ DOMAIN item_index = KeptValues
    /\ \A v \in KeptValues, debug \in BOOLEAN : witness(this, v, debug).kind = "Some"
\* Two epochs with different values are kept, a value of the first has
\* been forgotten and a value of the second is still indexed.
IndexedEqualsKeptWitness ==
    /\ TierLen(inner) = 2
    /\ \E a \in PrunedLeaves(inner) : a.epoch = 0
    /\ ret.op = "forget"
    /\ ret.res = Bool(TRUE)
    /\ \E w \in KeptValues : w \in DOMAIN epoch_index /\ epoch_index[w] = 1

\* C20: when a successfully inserted Keep epoch indexes a value v that is
\* indexed already, the three entries of v become v's address in the new
\* epoch and INV1 and INV2 hold afterwards; forget(v) of an indexed v
\* returns true and removes v from the three indices, whatever copies of v
\* the tree keeps, and then witness(v) is None and forget(v) returns false.
DuplicateLastWins ==
    [][\A v \in Values :
          /\ (InsertedKept(v)' /\ InSomeIndex(v)) =>
                /\ InAllIndices(v)'
                /\ AddressOf(v)' = [epoch |-> TierLen(inner),
                                    block |-> ret'.arg.keep.block_index[v],
                                    item |-> ret'.arg.keep.item_index[v]]
                /\ INV1'
                /\ INV2'
          /\ (Forgot(v)' /\ InSomeIndex(v)) =>
                /\ ret'.res = Bool(TRUE)
                /\ ~InSomeIndex(v)'
                /\ \A debug \in BOOLEAN :
                      /\ witness(this', v, debug) = None
                      /\ forget(this', v, debug) = [self |-> this', res |-> Bool(FALSE)]]_vars
\* v was indexed by the first epoch and again by the second, and has been
\* forgotten once: the first copy is still kept in the tree.
DuplicateWitness ==
    \E v \in Values :
        /\ Forgot(v)
        /\ ret.res = Bool(TRUE)
        /\ TierLen(inner) = 2
        /\ v \in KeptIn(inner[1].keep)
        /\ v \in HeldIn(inner[2].keep) \ KeptIn(inner[2].keep)

====
